---------------------------- MODULE Spec2Model ----------------------------
(***************************************************************************)
(* Model of the Aurora Telegram bot (ailish0000/AUR_bot).                  *)
(*                                                                         *)
(* The parts of the program are modelled each with its own specification   *)
(* over the shared variables:                                              *)
(*   SpecBroadcast : the broadcast flow of admin.py and /start of bot.py;  *)
(*   SpecPanel     : the admin panel handlers of admin.py and bot.py;      *)
(*   SpecRelay     : the consultant relay and the text-message dispatcher  *)
(*                   of bot.py;                                            *)
(*   SpecContent   : the stored answers and carousels of bot.py and the    *)
(*                   callback handlers that read them;                     *)
(*   SpecIndex     : knowledge-base indexing and the response cache        *)
(*                   (enhanced_vector_db.py, vector_db.py);                *)
(*   SpecCache, SpecConversation : the cache and conversation services of  *)
(*                   the frontend;                                         *)
(*   SpecProducts  : the product endpoints of the backend;                 *)
(*   SpecMemory    : conversation_memory.py and its cleanup thread.        *)
(*                                                                         *)
(* Handlers are coroutines: another update may be handled whenever a       *)
(* handler awaits.  A handler whose awaits are not observable by other     *)
(* handlers is one action; the broadcast loop, which awaits inside an      *)
(* iteration over the shared user set, is one action per iteration.        *)
(*                                                                         *)
(* A call to the Telegram API or to Qdrant that the code wraps in a try     *)
(* may raise; the outcome is a nondeterministic input `ok`.  A "send"      *)
(* recorded by the model is the attempt.                                   *)
(***************************************************************************)
EXTENDS Integers, Sequences, FiniteSets, TLC

\* ------------------------------------------------------------------ bounds
NumUsers == 3
MaxRuns == 1
MaxProducts == 2
MaxMessageId == 1
MaxVersions == 1
MaxAccess == 2
NumClients == 2
MaxCacheSize == 2
MaxClock == 2
MaxHistory == 2
MaxAdded == 3

Users == 1..NumUsers
\* chat ids of group chats (negative in Telegram); a private chat has the
\* id of its user
GroupChats == {0 - 1}
Chats == Users \cup GroupChats

\* a private chat holds one user; in a group any member may send
UpdateOrigins == {oc \in Users \X Chats : oc[2] \in Users => oc[2] = oc[1]}

\* the users that write to the bot and press the buttons under answers
Clients == 1..NumClients

VARIABLES
    ADMIN_ID,                   \* bot.py:97
    user_started,               \* bot.py:106 `users`, imported by admin.py:6
    fsm_state,                  \* aiogram FSM state of each user's private chat
    fsm_data,                   \* aiogram FSM data of each user's private chat
    prompts,                    \* confirmation prompts whose buttons are live
    submitted,                  \* the messages the admin has sent as broadcast content
    runs,                       \* the confirm_broadcast coroutines
    reply_copies,               \* copies sent by process_reply_message
    users_waiting_for_natalya,  \* bot.py:118
    admin_replying_to,          \* bot.py:119
    next_message_id,            \* id of the next message the bot sends to the admin
    user_product_context,       \* bot.py:115
    user_full_answers,          \* bot.py:112
    user_product_carousels,     \* bot.py:122
    user_recommendations,       \* bot.py:109
    kb_main,                    \* knowledge_base.json
    kb_new,                     \* knowledge_base_new.json
    last_hash,                  \* EnhancedVectorDB.last_hash
    collection,                 \* Qdrant collection aurora_knowledge_chunks
    response_cache,             \* ResponseCache.cache
    access_count,               \* ResponseCache.access_count
    index_run,                  \* the call of index_knowledge in progress
    legacy_loaded,              \* vector_db has been imported
    legacy_last_hash,           \* vector_db.last_hash
    legacy_collection,          \* Qdrant collection aurora_knowledge
    stale,                      \* history: the cache keys stored before the last re-index began
    clock,                      \* datetime.now() in minutes, time.time() in hours
    cache_service,              \* frontend/services/cache_service.py:173
    conversation_service,       \* frontend/services/conversation_service.py:227
    added,                      \* history: the messages passed to add_message, per user
    products,                   \* backend: the rows of table products, name by id
    memory_conversations,       \* conversation_memory.py:59  ConversationMemory.conversations
    memory_profiles,            \* conversation_memory.py:60  the keys of user_profiles
    memory_add,                 \* the call of ConversationMemory.add_message in progress
    memory_cleanup,             \* the run of cleanup_old_conversations in progress
    passed,                     \* history: the messages passed to ConversationMemory.add_message
    last                        \* history: the update handled by the last step

adminVars == <<user_started, fsm_state, fsm_data, prompts, submitted, runs, reply_copies>>
botVars == <<users_waiting_for_natalya, admin_replying_to, next_message_id,
             user_product_context, user_full_answers, user_product_carousels,
             user_recommendations>>
indexVars == <<kb_main, kb_new, last_hash, collection, response_cache, access_count,
               index_run, legacy_loaded, legacy_last_hash, legacy_collection, stale>>
memoryVars == <<memory_conversations, memory_profiles, memory_add, memory_cleanup, passed>>
serviceVars == <<clock, cache_service, conversation_service, added, products, memoryVars>>
vars == <<ADMIN_ID, adminVars, botVars, indexVars, serviceVars, last>>

\* the update handled by a step and what the handler did with it
NoUpdate ==
    [handler |-> "none", from |-> 0, chat |-> 0, data |-> "", effect |-> "none",
     run |-> 0, text |-> <<>>, reply_to |-> 0, branch |-> "none",
     was_waiting |-> FALSE, sends |-> {}, embedded |-> 0, content_sent |-> FALSE,
     prompt |-> "None", final |-> [pc |-> "none"], returned |-> "None"]

\* the messages the admin may send as broadcast content; a message is a
\* Telegram message object, so that each is sent at most once
SampleMessages == {"m1", "m2"}

NoData == [broadcast_message |-> "None", reply_user_id |-> 0]

\* a message the bot sends: bot.send_message, Message.send_copy
Send(to, kind, text) == [to |-> to, kind |-> kind, text |-> text]

\* ------------------------------------------------------------ admin.py
\* admin.py:22  is_admin
is_admin_always(user_id) == TRUE

is_admin(user_id) == user_id = ADMIN_ID

\* aiogram 2 binds StateFilter to every message and callback handler; a
\* handler registered without state= runs only while the state is None
NoState(u) == fsm_state[u] = "None"

\* state.finish(): the state and the data of the user are dropped
Finished(u) ==
    /\ fsm_state' = [fsm_state EXCEPT ![u] = "None"]
    /\ fsm_data' = [fsm_data EXCEPT ![u] = NoData]

\* bot.py:150  cmd_start
cmd_start(u) ==
    /\ user_started' = user_started \cup {u}
    /\ last' = [NoUpdate EXCEPT !.handler = "cmd_start"]
    /\ UNCHANGED <<ADMIN_ID, serviceVars, fsm_state, fsm_data, prompts, submitted, runs, reply_copies,
                   botVars, indexVars>>

\* bot.py:180  cmd_admin
bot_cmd_admin(u, chat) ==
    /\ last' = [NoUpdate EXCEPT !.handler = "bot_cmd_admin", !.from = u, !.chat = chat,
                                !.effect = IF u /= ADMIN_ID THEN "denied" ELSE "panel"]
    /\ UNCHANGED <<ADMIN_ID, serviceVars, adminVars, botVars, indexVars>>

\* bot.py:289  admin_stats
admin_stats(u, chat) ==
    /\ last' = [NoUpdate EXCEPT !.handler = "admin_stats", !.from = u, !.chat = chat,
                                !.data = "admin_stats",
                                !.effect = IF u /= ADMIN_ID THEN "denied" ELSE "stats"]
    /\ UNCHANGED <<ADMIN_ID, serviceVars, adminVars, botVars, indexVars>>

\* bot.py:305  admin_back
admin_back(u, chat) ==
    /\ last' = [NoUpdate EXCEPT !.handler = "admin_back", !.from = u, !.chat = chat,
                                !.data = "admin_back",
                                !.effect = IF u /= ADMIN_ID THEN "denied" ELSE "panel"]
    /\ UNCHANGED <<ADMIN_ID, serviceVars, adminVars, botVars, indexVars>>

\* admin.py:41  cmd_admin
admin_cmd_admin(u, chat) ==
    /\ chat \in Users => NoState(u)
    /\ last' = [NoUpdate EXCEPT !.handler = "admin_cmd_admin", !.from = u, !.chat = chat,
                                !.effect = IF ~is_admin(u) THEN "none" ELSE "panel"]
    /\ UNCHANGED <<ADMIN_ID, serviceVars, adminVars, botVars, indexVars>>

AdminActions == {"admin_stats", "admin_broadcast", "admin_users", "admin_info", "admin_back"}

\* admin.py:56  the filter of process_admin_panel
admin_panel_filter(chat) == chat = ADMIN_ID

PanelEffect(action) ==
    CASE action = "admin_stats" -> "stats"
      [] action = "admin_broadcast" -> "broadcast_started"
      [] action = "admin_users" -> "users_list"
      [] action = "admin_info" -> "info"
      [] action = "admin_back" -> "panel"

\* admin.py:57  process_admin_panel
process_admin_panel(u, chat, action) ==
    /\ admin_panel_filter(chat)
    /\ chat \in Users => NoState(u)
    /\ IF action = "admin_broadcast"
       THEN fsm_state' = [fsm_state EXCEPT ![u] = "waiting_for_content"]
       ELSE UNCHANGED fsm_state
    /\ last' = [NoUpdate EXCEPT !.handler = "process_admin_panel", !.from = u,
                                !.chat = chat, !.data = action,
                                !.effect = PanelEffect(action)]
    /\ UNCHANGED <<ADMIN_ID, serviceVars, user_started, fsm_data, prompts, submitted, runs, reply_copies,
                   botVars, indexVars>>

\* admin.py:148  process_broadcast_content
process_broadcast_content(u, message) ==
    /\ fsm_state[u] = "waiting_for_content"
    /\ message \notin submitted
    /\ IF ~is_admin(u)
       THEN /\ Finished(u)
            /\ UNCHANGED <<prompts, submitted>>
            /\ last' = [NoUpdate EXCEPT !.handler = "process_broadcast_content",
                                        !.from = u]
       ELSE /\ fsm_data' = [fsm_data EXCEPT ![u].broadcast_message = message]
            /\ prompts' = prompts \cup {message}
            /\ submitted' = submitted \cup {message}
            /\ fsm_state' = [fsm_state EXCEPT ![u] = "waiting_for_content"]
            /\ last' = [NoUpdate EXCEPT !.handler = "process_broadcast_content",
                                        !.from = u, !.effect = "prompt"]
    /\ UNCHANGED <<ADMIN_ID, serviceVars, user_started, runs, reply_copies, botVars, indexVars>>

\* admin.py:174  the cancel branch of confirm_broadcast
IsCancelNever(data) == FALSE

IsCancel(data) == data = "cancel_broadcast"

\* admin.py:183-184  the message a confirmed broadcast sends
BroadcastMessageOf(u, prompt) == fsm_data[u].broadcast_message

\* admin.py:190  the element a set iterator yields next: it walks the hash
\* table, where an int lies at the slot of its value, so that the ids of the
\* model, smaller than the table, come in ascending order
NextOf(rest) == CHOOSE v \in rest : \A w \in rest : v <= w

\* admin.py:183-190  the locals of a confirmed broadcast and the iterator
\* over user_started: si_used is the size the set had when the iterator
\* was made, cur the element the loop is sending to
NewRun(u, prompt, data, first) ==
    [owner |-> u, data |-> data, prompt |-> prompt,
     msg |-> BroadcastMessageOf(u, prompt),
     known |-> user_started, visited |-> {}, si_used |-> Cardinality(user_started),
     cur |-> first,
     copies |-> [v \in Users |-> 0],
     pc |-> IF first = 0 THEN "report" ELSE "loop"]

\* admin.py:173  confirm_broadcast, up to the first await inside the loop;
\* the prompt is the confirmation message whose button was pressed.  With
\* no known user the loop body never runs and the handler goes on to the
\* final report.
confirm_broadcast(u, prompt, data) ==
    /\ fsm_state[u] = "waiting_for_content"
    /\ prompt \in prompts
    /\ IF IsCancel(data)
       THEN /\ prompts' = prompts \ {prompt}
            /\ Finished(u)
            /\ UNCHANGED runs
            /\ last' = [NoUpdate EXCEPT !.handler = "confirm_broadcast", !.from = u,
                                        !.data = data, !.effect = "cancelled"]
       ELSE /\ Len(runs) < MaxRuns
            /\ runs' = Append(runs, NewRun(u, prompt, data,
                                            IF user_started = {} THEN 0
                                            ELSE NextOf(user_started)))
            /\ UNCHANGED <<fsm_state, fsm_data>>
            /\ UNCHANGED prompts
            /\ last' = [NoUpdate EXCEPT !.handler = "confirm_broadcast", !.from = u,
                                        !.data = data, !.run = Len(runs) + 1,
                                        !.effect = "broadcast_begun"]
    /\ UNCHANGED <<ADMIN_ID, serviceVars, user_started, submitted, reply_copies, botVars, indexVars>>

\* admin.py:194-200  the send of one iteration, which the try keeps from
\* ending the loop when it raises (ok is FALSE); msg is None when no message
\* is stored, and msg.send_copy then raises inside the try.  copies counts
\* the sends made to a user; the counters of the final report are left out.
SendCopy(run, ok) ==
    IF run.msg = "None"
    THEN [run EXCEPT !.visited = @ \cup {run.cur}]
    ELSE [run EXCEPT !.visited = @ \cup {run.cur}, !.copies[run.cur] = @ + 1]

\* the copy an iteration sends
CopySent(run) == IF run.msg = "None" THEN {} ELSE {Send(run.cur, "copy", run.msg)}

\* a coroutine that has returned or raised: its locals are gone
Ended ==
    [owner |-> 0, data |-> "", prompt |-> "None", msg |-> "None", known |-> {}, visited |-> {},
     si_used |-> 0, cur |-> 0, copies |-> [v \in Users |-> 0], pc |-> "ended"]

\* admin.py:190-200  confirm_broadcast resumed after the await of one
\* iteration: the send returns or raises, then the set iterator is asked
\* for the next element.  It raises RuntimeError when the set changed size
\* since the iterator was made, and the handler ends there; when it is
\* exhausted the handler goes on to the final report.
broadcast_step(r) ==
    /\ r \in 1..Len(runs)
    /\ runs[r].pc = "loop"
    /\ \E ok \in BOOLEAN :
         LET sent == SendCopy(runs[r], ok)
             step == [NoUpdate EXCEPT !.handler = "broadcast_step", !.run = r,
                                      !.from = sent.owner, !.prompt = sent.prompt,
                                      !.sends = CopySent(runs[r]),
                                      !.effect = IF ok /\ sent.msg /= "None" THEN "copied"
                                                 ELSE "send_failed"]
         IN
         IF Cardinality(user_started) /= sent.si_used
         THEN /\ runs' = [runs EXCEPT ![r] = Ended]
              /\ last' = [step EXCEPT !.final = [sent EXCEPT !.pc = "crashed", !.cur = 0]]
         ELSE IF sent.visited = user_started
              THEN /\ runs' = [runs EXCEPT ![r] = [sent EXCEPT !.pc = "report", !.cur = 0]]
                   /\ last' = step
              ELSE /\ runs' = [runs EXCEPT ![r] = [sent EXCEPT
                                      !.cur = NextOf(user_started \ sent.visited)]]
                   /\ last' = step
    /\ UNCHANGED <<ADMIN_ID, serviceVars, user_started, fsm_state, fsm_data, prompts, submitted,
                   reply_copies, botVars, indexVars>>

\* admin.py:202-207  the final report and state.finish()
broadcast_report(r) ==
    /\ r \in 1..Len(runs)
    /\ runs[r].pc = "report"
    /\ runs' = [runs EXCEPT ![r] = Ended]
    /\ Finished(runs[r].owner)
    /\ last' = [NoUpdate EXCEPT !.handler = "broadcast_report", !.run = r,
                                !.from = runs[r].owner, !.effect = "report",
                                !.final = [runs[r] EXCEPT !.pc = "done"]]
    /\ UNCHANGED <<ADMIN_ID, serviceVars, user_started, prompts, submitted, reply_copies, botVars,
                   indexVars>>

\* admin.py:212  enter_reply_mode
enter_reply_mode(u, target) ==
    /\ u = ADMIN_ID
    /\ NoState(u)
    /\ IF target \notin user_started
       THEN /\ UNCHANGED <<fsm_state, fsm_data>>
            /\ last' = [NoUpdate EXCEPT !.handler = "enter_reply_mode", !.from = u,
                                        !.chat = u, !.embedded = target,
                                        !.effect = "not_found"]
       ELSE /\ fsm_data' = [fsm_data EXCEPT ![u].reply_user_id = target]
            /\ fsm_state' = [fsm_state EXCEPT ![u] = "waiting_for_message"]
            /\ last' = [NoUpdate EXCEPT !.handler = "enter_reply_mode", !.from = u,
                                        !.chat = u, !.embedded = target,
                                        !.effect = "reply_mode"]
    /\ UNCHANGED <<ADMIN_ID, serviceVars, user_started, prompts, submitted, runs, reply_copies,
                   botVars, indexVars>>

\* admin.py:231  process_reply_message
process_reply_message(u) ==
    /\ fsm_state[u] = "waiting_for_message"
    /\ IF ~is_admin(u) \/ fsm_data[u].reply_user_id = 0
       THEN UNCHANGED reply_copies
       ELSE reply_copies' = reply_copies \cup {fsm_data[u].reply_user_id}
    /\ Finished(u)
    /\ last' = [NoUpdate EXCEPT !.handler = "process_reply_message", !.from = u, !.chat = u]
    /\ UNCHANGED <<ADMIN_ID, serviceVars, user_started, prompts, submitted, runs, botVars, indexVars>>

\* --------------------------------------------------------------- bot.py
\* A text is the sequence of its words, written in Latin transliteration;
\* `pattern in text` of the source is containment of the pattern's words as
\* consecutive words of the text.
Lower(w) ==
    CASE w = "Da" -> "da"
      [] w = "Privet" -> "privet"
      [] OTHER -> w

LowerText(t) == [i \in DOMAIN t |-> Lower(t[i])]

RECURSIVE CharsOf(_)
CharsOf(t) == IF t = <<>> THEN 0 ELSE Len(Head(t)) + CharsOf(Tail(t))

\* len(text): the letters of the words and one blank between two words
TextLen(t) == IF t = <<>> THEN 0 ELSE CharsOf(t) + Len(t) - 1

Contains(t, pat) ==
    \E i \in 1..Len(t) : i + Len(pat) - 1 <= Len(t) /\ SubSeq(t, i, i + Len(pat) - 1) = pat

ContainsAny(t, pats) == \E pat \in pats : Contains(t, pat)

\* bot.py:331
link_confirmations == {<<"da">>, <<"da", "nuzhna">>, <<"nuzhna">>, <<"da,", "nuzhna">>}

\* bot.py:336
additional_request_patterns ==
    {<<"chto", "posovetuesh", "esche">>, <<"chto", "esche">>, <<"esche", "chto">>,
     <<"chto-to", "esche">>, <<"esche", "produkty">>,
     <<"chto", "posovetuesh", "eschyo">>, <<"chto", "eschyo">>, <<"eschyo", "chto">>,
     <<"chto-to", "eschyo">>, <<"eschyo", "produkty">>,
     <<"dopolnitelno", "chto">>, <<"dopolnitelnye">>, <<"drugie", "varianty">>}

\* bot.py:346
link_indicators ==
    {<<"ssylka">>, <<"ssylki">>, <<"ssylochku">>, <<"prishli", "ssylku">>,
     <<"day", "ssylku">>, <<"pokazhi", "ssylku">>, <<"gde", "kupit">>, <<"kupit">>}

\* bot.py:355
question_indicators ==
    {<<"chto">>, <<"kakie">>, <<"kak">>, <<"gde">>, <<"kogda">>, <<"pochemu">>,
     <<"zachem">>, <<"rasskazhi">>, <<"pokazhi">>, <<"est", "li">>, <<"posovetuy">>,
     <<"nuzhno">>, <<"hochu">>, <<"dlya">>}

\* bot.py:364
product_words ==
    {<<"argent">>, <<"geposin">>, <<"simbion">>, <<"elomil">>, <<"bwl">>,
     <<"chernogo", "oreha">>, <<"solberri">>, <<"biteron">>, <<"koshachiy">>,
     <<"kogot">>, <<"in-aurin">>, <<"bars">>, <<"bars_lat">>, <<"si-enerzhi">>,
     <<"vitamin">>, <<"oranzh">>}

\* bot.py:383
greetings ==
    {<<"privet">>, <<"zdravstvuy">>, <<"zdravstvuyte">>, <<"hay">>, <<"hello">>,
     <<"hi">>, <<"dobryy", "den">>, <<"dobryy", "vecher">>, <<"dobroe", "utro">>}

Digits == {"1", "2", "3", "4", "5", "6", "7", "8", "9"}

\* str.isdigit() of a sample text
IsDigit(t) == Len(t) = 1 /\ t[1] \in Digits

DigitValue(d) ==
    CASE d = "1" -> 1 [] d = "2" -> 2 [] d = "3" -> 3 [] d = "4" -> 4 [] d = "5" -> 5
      [] d = "6" -> 6 [] d = "7" -> 7 [] d = "8" -> 8 [] d = "9" -> 9

\* the text messages users and the admin send
SampleTexts ==
    {<<"Da">>,
     <<"chto", "esche">>,
     <<"gde", "kupit", "solberri">>,
     <<"2">>,
     <<"ok">>,
     <<"Privet">>,
     <<"kakie", "produkty", "dlya", "pecheni">>,
     <<"prinimayte", "utrom">>}

HasKey(f, k) == k \in DOMAIN f

\* dict[k] = v
Put(f, k, v) == [x \in DOMAIN f \cup {k} |-> IF x = k THEN v ELSE f[x]]

\* del dict[k] / dict.pop(k, None)
Drop(f, k) == [x \in DOMAIN f \ {k} |-> f[x]]

\* bot.py:331-383  the tests handle_message makes on message.text, worked out
\* once for every sample text
TextTests ==
    [text \in SampleTexts |->
        [link_confirmation |-> LowerText(text) \in link_confirmations,
         additional |-> ContainsAny(LowerText(text), additional_request_patterns),
         link_request |-> ContainsAny(LowerText(text), link_indicators),
         \* bot.py:355-359
         new_question |-> /\ TextLen(text) > 15
                          /\ ContainsAny(LowerText(text), question_indicators),
         \* bot.py:362-367
         product_choice |-> /\ TextLen(text) < 50
                            /\ \/ IsDigit(text)
                               \/ ContainsAny(LowerText(text), product_words),
         short |-> TextLen(text) < 3,
         greeting |-> ContainsAny(LowerText(text), greetings)]]

\* bot.py:326-433  the branch of handle_message that handles a text, with the
\* consultant check moved behind the keyword branches
BranchKeywordsFirst(u, text, reply_to) ==
    IF TextTests[text].link_confirmation THEN "link_confirmation"
    ELSE IF TextTests[text].additional THEN "additional"
    ELSE IF TextTests[text].link_request THEN "link_request"
    ELSE IF u \in users_waiting_for_natalya THEN "natalya"
    ELSE IF /\ HasKey(user_product_context, u)
            /\ ~TextTests[text].new_question
            /\ TextTests[text].product_choice THEN "product_selection"
    ELSE IF u = ADMIN_ID /\ reply_to /= 0 THEN "admin_reply"
    ELSE IF TextTests[text].short THEN "short"
    ELSE IF TextTests[text].greeting THEN "greeting"
    ELSE "ai"

\* bot.py:326-433  the branch of handle_message that handles a text
Branch(u, text, reply_to) ==
    IF u \in users_waiting_for_natalya THEN "natalya"
    ELSE IF TextTests[text].link_confirmation THEN "link_confirmation"
    ELSE IF TextTests[text].additional THEN "additional"
    ELSE IF TextTests[text].link_request THEN "link_request"
    ELSE IF /\ HasKey(user_product_context, u)
            /\ ~TextTests[text].new_question
            /\ TextTests[text].product_choice THEN "product_selection"
    ELSE IF u = ADMIN_ID /\ reply_to /= 0 THEN "admin_reply"
    ELSE IF TextTests[text].short THEN "short"
    ELSE IF TextTests[text].greeting THEN "greeting"
    ELSE "ai"

\* bot.py:360  the context left by the new-question check, which runs in
\* every branch behind the link-request check
ContextAfterQuestion(u, text) ==
    IF HasKey(user_product_context, u) /\ TextTests[text].new_question
    THEN Drop(user_product_context, u)
    ELSE user_product_context

Handled(u, text, reply_to, branch) ==
    [NoUpdate EXCEPT !.handler = "handle_message", !.from = u, !.chat = u,
                     !.text = text, !.reply_to = reply_to, !.branch = branch,
                     !.was_waiting = (u \in users_waiting_for_natalya)]

\* bot.py:197  write_to_natalya
write_to_natalya(u) ==
    /\ users_waiting_for_natalya' = users_waiting_for_natalya \cup {u}
    /\ last' = [NoUpdate EXCEPT !.handler = "write_to_natalya", !.from = u, !.chat = u,
                                !.was_waiting = (u \in users_waiting_for_natalya)]
    /\ UNCHANGED <<ADMIN_ID, serviceVars, adminVars, indexVars, admin_replying_to, next_message_id,
                   user_product_context, user_full_answers, user_product_carousels,
                   user_recommendations>>

\* bot.py:223, bot.py:261  users_waiting_for_natalya.discard(user_id), and
\* the set a handler leaves when it forgets the discard
KeepWaiting(u) == users_waiting_for_natalya

DiscardWaiting(u) == users_waiting_for_natalya \ {u}

\* bot.py:220  cancel_natalya
cancel_natalya(u) ==
    /\ users_waiting_for_natalya' = DiscardWaiting(u)
    /\ last' = [NoUpdate EXCEPT !.handler = "cancel_natalya", !.from = u, !.chat = u,
                                !.was_waiting = (u \in users_waiting_for_natalya)]
    /\ UNCHANGED <<ADMIN_ID, serviceVars, adminVars, indexVars, admin_replying_to, next_message_id,
                   user_product_context, user_full_answers, user_product_carousels,
                   user_recommendations>>

\* bot.py:257  back_to_main
back_to_main(u) ==
    /\ users_waiting_for_natalya' = DiscardWaiting(u)
    /\ last' = [NoUpdate EXCEPT !.handler = "back_to_main", !.from = u, !.chat = u,
                                !.was_waiting = (u \in users_waiting_for_natalya)]
    /\ UNCHANGED <<ADMIN_ID, serviceVars, adminVars, indexVars, admin_replying_to, next_message_id,
                   user_product_context, user_full_answers, user_product_carousels,
                   user_recommendations>>

\* bot.py:622  handle_message_to_natalya; bot.send_message to the admin
\* returns the sent message (ok) or raises
handle_message_to_natalya(u, text, h) ==
    /\ users_waiting_for_natalya' = users_waiting_for_natalya \ {u}
    /\ UNCHANGED <<user_product_context, user_full_answers, user_product_carousels>>
    /\ IF text = <<>>
       THEN /\ last' = [h EXCEPT !.effect = "empty"]
            /\ UNCHANGED <<admin_replying_to, next_message_id>>
       ELSE IF ADMIN_ID /= 0
            THEN /\ next_message_id <= MaxMessageId
                 /\ \E ok \in BOOLEAN :
                      IF ok
                      THEN /\ admin_replying_to' =
                                  Put(admin_replying_to, next_message_id, u)
                           /\ next_message_id' = next_message_id + 1
                           /\ last' = [h EXCEPT !.effect = "forwarded",
                                                !.sends = {Send(ADMIN_ID, "consult", text)}]
                      ELSE /\ UNCHANGED <<admin_replying_to, next_message_id>>
                           /\ last' = [h EXCEPT !.effect = "send_failed",
                                                !.sends = {Send(ADMIN_ID, "consult", text)}]
            ELSE /\ last' = [h EXCEPT !.effect = "unavailable"]
                 /\ UNCHANGED <<admin_replying_to, next_message_id>>

\* bot.py:684  handle_admin_reply; bot.send_message to the user returns or raises
handle_admin_reply(text, reply_to, h) ==
    /\ UNCHANGED <<users_waiting_for_natalya, next_message_id, user_full_answers,
                   user_product_carousels>>
    /\ IF reply_to /= 0 /\ HasKey(admin_replying_to, reply_to)
       THEN IF text = <<>>
            THEN /\ last' = [h EXCEPT !.effect = "empty"]
                 /\ UNCHANGED admin_replying_to
            ELSE \E ok \in BOOLEAN :
                   /\ admin_replying_to' =
                          IF ok THEN Drop(admin_replying_to, reply_to) ELSE admin_replying_to
                   /\ last' = [h EXCEPT
                          !.effect = IF ok THEN "relayed" ELSE "send_failed",
                          !.sends = {Send(admin_replying_to[reply_to], "reply", text)}]
       ELSE /\ last' = h
            /\ UNCHANGED admin_replying_to

\* bot.py:1514  handle_link_request_confirmation
handle_link_request_confirmation(u, h) ==
    /\ UNCHANGED <<users_waiting_for_natalya, admin_replying_to, next_message_id,
                   user_full_answers, user_product_carousels>>
    /\ IF ~HasKey(user_product_context, u)
       THEN /\ last' = [h EXCEPT !.effect = "no_context"]
            /\ UNCHANGED user_product_context
       ELSE IF user_product_context[u] = 1
            THEN /\ last' = [h EXCEPT !.effect = "link"]
                 /\ user_product_context' = Drop(user_product_context, u)
            ELSE /\ last' = [h EXCEPT !.effect = "which_product"]
                 /\ UNCHANGED user_product_context

\* bot.py:1610  handle_additional_recommendations; the handler of the
\* immunity topic may replace the context by the products it lists
handle_additional_recommendations(u, h, env) ==
    /\ UNCHANGED <<users_waiting_for_natalya, admin_replying_to, next_message_id,
                   user_full_answers, user_product_carousels>>
    /\ last' = [h EXCEPT !.effect = "more"]
    /\ \/ UNCHANGED user_product_context
       \/ \E n \in env.ctx \ {0} :
             /\ HasKey(user_product_context, u)
             /\ user_product_context[u] > 0
             /\ user_product_context' = Put(user_product_context, u, n)

\* bot.py:1132-1139  a request that names no product falls back on the context
FoundProducts(ctx, u, found) ==
    IF found = 0 /\ HasKey(ctx, u) /\ ctx[u] > 0 THEN ctx[u] ELSE found

\* bot.py:964  handle_product_link_request, bot.py:1222 send_product_carousel;
\* found is the number of products the search of the knowledge base returns
handle_product_link_request(u, h, ctx, found) ==
    /\ UNCHANGED <<users_waiting_for_natalya, admin_replying_to, next_message_id,
                   user_full_answers>>
    /\ user_product_context' = ctx
    /\ IF FoundProducts(ctx, u, found) > 1
       THEN /\ user_product_carousels' =
                   Put(user_product_carousels, u,
                       [n |-> FoundProducts(ctx, u, found), current_index |-> 0])
            /\ last' = [h EXCEPT !.effect = "carousel"]
       ELSE /\ UNCHANGED user_product_carousels
            /\ last' = [h EXCEPT !.effect =
                           IF FoundProducts(ctx, u, found) = 1 THEN "link" ELSE "not_found"]

\* bot.py:1541  handle_product_selection; by_name says whether the text
\* matches the name of a product of the context
handle_product_selection(u, text, h) ==
    /\ UNCHANGED <<users_waiting_for_natalya, admin_replying_to, next_message_id,
                   user_full_answers, user_product_carousels>>
    /\ \E by_name \in BOOLEAN :
         LET n == user_product_context[u]
             selected == \/ IsDigit(text) /\ DigitValue(text[1]) <= n
                         \/ n > 0 /\ by_name
         IN IF selected
            THEN /\ user_product_context' = Drop(user_product_context, u)
                 /\ last' = [h EXCEPT !.effect = "link"]
            ELSE /\ UNCHANGED user_product_context
                 /\ last' = [h EXCEPT !.effect = "which_product"]

\* what the NLP processor and the LLM make of a question: the branch of
\* bot.py:434-620 that answers, the product context the answer leaves
\* (-1: none), whether the answer is longer than 999 characters and has text
\* behind the cut, and whether it is a complaint
AIOutcomes(kinds, ctxs, longs, complaints) ==
    [kind : kinds, nctx : ctxs, long : longs, complaint : complaints]

\* bot.py:434-620  the AI answer of handle_message and its fallback
ai_answer(u, text, h, ctx, o, env) ==
    /\ UNCHANGED <<users_waiting_for_natalya, admin_replying_to, next_message_id>>
    /\ CASE o.kind = "registration" ->
              /\ user_product_context' = ctx
              /\ UNCHANGED <<user_full_answers, user_product_carousels>>
              /\ last' = [h EXCEPT !.effect = "registration"]
         [] o.kind = "llm" ->
              /\ user_product_context' =
                     IF o.nctx < 0 THEN Drop(ctx, u) ELSE Put(ctx, u, o.nctx)
              /\ user_full_answers' =
                     IF o.long = "no" THEN user_full_answers
                     ELSE Put(user_full_answers, u, o.long)
              /\ UNCHANGED user_product_carousels
              /\ last' = [h EXCEPT !.effect = "answer",
                                   !.sends = IF o.complaint /\ ADMIN_ID /= 0
                                             THEN {Send(ADMIN_ID, "priority", text)}
                                             ELSE {}]
         [] o.kind = "failed" ->
              /\ user_product_context' = ctx
              /\ UNCHANGED <<user_full_answers, user_product_carousels>>
              /\ last' = [h EXCEPT !.effect = "simple_answer",
                                   !.sends = IF ADMIN_ID /= 0
                                             THEN {Send(ADMIN_ID, "notify", text)}
                                             ELSE {}]

\* bot.py:321  handle_message; env bounds what the knowledge base and the
\* LLM return
handle_message(u, text, reply_to, env) ==
    LET br == Branch(u, text, reply_to)
        h == Handled(u, text, reply_to, br)
        ctx == ContextAfterQuestion(u, text)
    IN /\ CASE br = "natalya" -> handle_message_to_natalya(u, text, h)
            [] br = "link_confirmation" -> handle_link_request_confirmation(u, h)
            [] br = "additional" -> handle_additional_recommendations(u, h, env)
            [] br = "link_request" ->
                 \E found \in env.found :
                    handle_product_link_request(u, h, user_product_context, found)
            [] br = "product_selection" -> handle_product_selection(u, text, h)
            [] br = "admin_reply" ->
                 /\ user_product_context' = ctx
                 /\ handle_admin_reply(text, reply_to, h)
            [] br \in {"short", "greeting"} ->
                 /\ user_product_context' = ctx
                 /\ last' = h
                 /\ UNCHANGED <<users_waiting_for_natalya, admin_replying_to,
                                next_message_id, user_full_answers,
                                user_product_carousels>>
            [] br = "ai" ->
                 \/ \E o \in env.ai : ai_answer(u, text, h, ctx, o, env)
                 \/ \E found \in env.found :
                       handle_product_link_request(u, h, ctx, found)
       /\ UNCHANGED <<ADMIN_ID, serviceVars, adminVars, indexVars, user_recommendations>>

CallbackOf(handler, presser, uid) ==
    [NoUpdate EXCEPT !.handler = handler, !.from = presser, !.embedded = uid]

\* bot.py:887, 929, 949, 848, 867  the check that the presser owns the content,
\* and a check that lets everybody through
AnyPresser(presser, uid) == FALSE

NotOwner(presser, uid) == presser /= uid

\* bot.py:879  handle_read_more; malformed data makes int() raise
handle_read_more(presser, uid, malformed) ==
    /\ IF malformed
       THEN /\ last' = [CallbackOf("handle_read_more", presser, uid) EXCEPT !.effect = "error"]
            /\ UNCHANGED user_full_answers
       ELSE IF NotOwner(presser, uid)
       THEN /\ last' = [CallbackOf("handle_read_more", presser, uid) EXCEPT !.effect = "not_yours"]
            /\ UNCHANGED user_full_answers
       ELSE IF HasKey(user_full_answers, uid)
       THEN IF user_full_answers[uid] = "tail"
            THEN /\ user_full_answers' = Drop(user_full_answers, uid)
                 /\ last' = [CallbackOf("handle_read_more", presser, uid) EXCEPT
                                !.effect = "continued", !.content_sent = TRUE]
            ELSE /\ last' = [CallbackOf("handle_read_more", presser, uid) EXCEPT
                                !.effect = "no_more"]
                 /\ UNCHANGED user_full_answers
       ELSE /\ last' = [CallbackOf("handle_read_more", presser, uid) EXCEPT !.effect = "not_found"]
            /\ UNCHANGED user_full_answers
    /\ UNCHANGED <<ADMIN_ID, serviceVars, adminVars, indexVars, users_waiting_for_natalya,
                   admin_replying_to, next_message_id, user_product_context,
                   user_product_carousels, user_recommendations>>

\* bot.py:1317  update_product_carousel
update_product_carousel(h, uid, new_index) ==
    IF ~HasKey(user_product_carousels, uid)
    THEN /\ last' = [h EXCEPT !.effect = "not_found"]
         /\ UNCHANGED user_product_carousels
    ELSE IF new_index >= user_product_carousels[uid].n
    THEN /\ last' = [h EXCEPT !.effect = "out_of_range"]
         /\ UNCHANGED user_product_carousels
    ELSE /\ user_product_carousels' =
                [user_product_carousels EXCEPT ![uid].current_index = new_index]
         /\ last' = [h EXCEPT !.effect = "product", !.content_sent = TRUE]

Carousel(handler, presser, uid, new_index, malformed) ==
    /\ IF malformed
       THEN /\ last' = [CallbackOf(handler, presser, uid) EXCEPT !.effect = "error"]
            /\ UNCHANGED user_product_carousels
       ELSE IF NotOwner(presser, uid)
       THEN /\ last' = [CallbackOf(handler, presser, uid) EXCEPT !.effect = "not_yours"]
            /\ UNCHANGED user_product_carousels
       ELSE update_product_carousel(CallbackOf(handler, presser, uid), uid, new_index)
    /\ UNCHANGED <<ADMIN_ID, serviceVars, adminVars, indexVars, users_waiting_for_natalya,
                   admin_replying_to, next_message_id, user_product_context,
                   user_full_answers, user_recommendations>>

\* bot.py:920  handle_carousel_prev
handle_carousel_prev(presser, uid, new_index, malformed) ==
    Carousel("handle_carousel_prev", presser, uid, new_index, malformed)

\* bot.py:940  handle_carousel_next
handle_carousel_next(presser, uid, new_index, malformed) ==
    Carousel("handle_carousel_next", presser, uid, new_index, malformed)

\* bot.py:781  send_recommendation_edit
send_recommendation_edit(h, uid, index) ==
    IF ~HasKey(user_recommendations, uid)
    THEN last' = [h EXCEPT !.effect = "not_found"]
    ELSE IF index < 1 \/ index > user_recommendations[uid]
    THEN last' = [h EXCEPT !.effect = "out_of_range"]
    ELSE last' = [h EXCEPT !.effect = "recommendation", !.content_sent = TRUE]

Recommendation(handler, presser, uid, index, malformed) ==
    /\ IF malformed
       THEN last' = [CallbackOf(handler, presser, uid) EXCEPT !.effect = "error"]
       ELSE IF NotOwner(presser, uid)
       THEN last' = [CallbackOf(handler, presser, uid) EXCEPT !.effect = "not_yours"]
       ELSE send_recommendation_edit(CallbackOf(handler, presser, uid), uid, index)
    /\ UNCHANGED <<ADMIN_ID, serviceVars, adminVars, indexVars, botVars>>

\* bot.py:841  handle_next_recommendation
handle_next_recommendation(presser, uid, index, malformed) ==
    Recommendation("handle_next_recommendation", presser, uid, index, malformed)

\* bot.py:860  handle_prev_recommendation
handle_prev_recommendation(presser, uid, index, malformed) ==
    Recommendation("handle_prev_recommendation", presser, uid, index, malformed)

\* ------------------------------------ enhanced_vector_db.py, vector_db.py
\* A knowledge-base file is absent or holds one of its versions, each a
\* list of products.  Two versions differ in their md5.
Missing == 0

FileStates == {Missing} \cup (1..MaxVersions)

KnowledgeFiles == {"knowledge_base.json", "knowledge_base_new.json"}

Idle == [pc |-> "idle", hash |-> <<>>, loaded |-> <<>>]

\* the maintenance scripts or the operator write, replace or remove a file
write_file(file, v) ==
    /\ IF file = "knowledge_base.json"
       THEN kb_main /= v /\ kb_main' = v /\ UNCHANGED kb_new
       ELSE kb_new /= v /\ kb_new' = v /\ UNCHANGED kb_main
    /\ last' = [NoUpdate EXCEPT !.handler = "write_file"]
    /\ UNCHANGED <<ADMIN_ID, serviceVars, adminVars, botVars, last_hash, collection, response_cache,
                   access_count, index_run, legacy_loaded, legacy_last_hash,
                   legacy_collection, stale>>

\* enhanced_vector_db.py:124  _get_file_hash; <<>> is the empty string
EVDB_get_file_hash ==
    IF kb_main = Missing \/ kb_new = Missing THEN <<>> ELSE <<kb_main, kb_new>>

\* enhanced_vector_db.py:133  _load_knowledge: what each file contributes
EVDB_load_knowledge == <<kb_main, kb_new>>

\* enhanced_vector_db.py:292  `not knowledge_data`
NoKnowledge(loaded) == \A i \in DOMAIN loaded : loaded[i] = Missing

\* enhanced_vector_db.py:52  ResponseCache.clear clears a dict, and a clear
\* that leaves the dict as it is
clear_nothing(d) == d

clear(d) == <<>>

\* enhanced_vector_db.py:31
max_size == 100

\* the queries users ask
SampleQueries == {<<"Immunitet?">>, <<"dlya", "immuniteta">>, <<"Solberri">>}

\* enhanced_vector_db.py:452-456  lower(), strip() and punctuation to blanks
QueryWord(w) ==
    CASE w = "Immunitet?" -> "immunitet"
      [] w = "Solberri" -> "solberri"
      [] OTHER -> w

\* enhanced_vector_db.py:459-470  `synonym in normalized` is a substring
\* test, and every synonym of the list contains the synonym immunitet
HasImmunitySynonym(q) == \E i \in DOMAIN q : q[i] \in {"immunitet", "immuniteta"}

\* enhanced_vector_db.py:449  _normalize_query_for_cache
normalize_query_for_cache(query) ==
    LET normalized == [i \in DOMAIN query |-> QueryWord(query[i])]
    IN IF HasImmunitySynonym(normalized) THEN <<"immunitet">> ELSE normalized

\* enhanced_vector_db.py:446, 480  the md5 of the normalized query, taken
\* to be free of collisions
cache_key(query) == <<"md5", normalize_query_for_cache(query)>>

\* enhanced_vector_db.py:44  the least used key of ResponseCache.set
LeastUsed ==
    {k \in DOMAIN access_count :
        \A j \in DOMAIN access_count : access_count[k] <= access_count[j]}

\* enhanced_vector_db.py:476  cache_response, enhanced_vector_db.py:42
\* ResponseCache.set
cache_response(query) ==
    /\ IF Cardinality(DOMAIN response_cache) >= max_size
       THEN \E least_used \in LeastUsed :
               /\ HasKey(response_cache, least_used)
               /\ response_cache' =
                      Put(Drop(response_cache, least_used), cache_key(query), "response")
               /\ access_count' =
                      Put(Drop(access_count, least_used), cache_key(query), 1)
       ELSE /\ response_cache' = Put(response_cache, cache_key(query), "response")
            /\ access_count' = Put(access_count, cache_key(query), 1)
    /\ stale' = stale \ {cache_key(query)}
    /\ last' = [NoUpdate EXCEPT !.handler = "cache_response"]
    /\ UNCHANGED <<ADMIN_ID, serviceVars, adminVars, botVars, kb_main, kb_new, last_hash, collection,
                   index_run, legacy_loaded, legacy_last_hash, legacy_collection>>

\* enhanced_vector_db.py:442  what get_cached_response returns
CachedResponse(cache, query) ==
    IF HasKey(cache, cache_key(query)) THEN cache[cache_key(query)] ELSE "None"

\* enhanced_vector_db.py:442  get_cached_response, enhanced_vector_db.py:36
\* ResponseCache.get
get_cached_response(query) ==
    /\ IF HasKey(response_cache, cache_key(query))
       THEN LET n == IF HasKey(access_count, cache_key(query))
                     THEN access_count[cache_key(query)] ELSE 0
            IN /\ n < MaxAccess
               /\ access_count' = Put(access_count, cache_key(query), n + 1)
       ELSE UNCHANGED access_count
    /\ last' = [NoUpdate EXCEPT !.handler = "get_cached_response",
                                !.effect = CachedResponse(response_cache, query)]
    /\ UNCHANGED <<ADMIN_ID, serviceVars, adminVars, botVars, kb_main, kb_new, last_hash, collection,
                   response_cache, index_run, legacy_loaded, legacy_last_hash,
                   legacy_collection, stale>>

\* enhanced_vector_db.py:282-327  index_knowledge up to recreate_collection;
\* the encoder or Qdrant may raise
index_knowledge_begin ==
    /\ index_run.pc = "idle"
    /\ IF EVDB_get_file_hash = last_hash /\ EVDB_get_file_hash /= <<>>
       THEN /\ last' = [NoUpdate EXCEPT !.handler = "index_knowledge",
                                        !.effect = "skipped"]
            /\ UNCHANGED <<collection, index_run, stale>>
       ELSE IF NoKnowledge(EVDB_load_knowledge)
       THEN /\ last' = [NoUpdate EXCEPT !.handler = "index_knowledge",
                                        !.effect = "empty"]
            /\ UNCHANGED <<collection, index_run, stale>>
       ELSE \E ok \in BOOLEAN :
              IF ok
              THEN /\ collection' = <<>>
                   /\ index_run' = [pc |-> "upload", hash |-> EVDB_get_file_hash,
                                    loaded |-> EVDB_load_knowledge]
                   /\ stale' = DOMAIN response_cache
                   /\ last' = [NoUpdate EXCEPT !.handler = "index_knowledge",
                                               !.effect = "recreated"]
              ELSE /\ last' = [NoUpdate EXCEPT !.handler = "index_knowledge",
                                               !.effect = "failed"]
                   /\ UNCHANGED <<collection, index_run, stale>>
    /\ UNCHANGED <<ADMIN_ID, serviceVars, adminVars, botVars, kb_main, kb_new, last_hash,
                   response_cache, access_count, legacy_loaded, legacy_last_hash,
                   legacy_collection>>

\* enhanced_vector_db.py:346-358  the upload of the points, the new
\* last_hash and the first statement of ResponseCache.clear
index_knowledge_upload ==
    /\ index_run.pc = "upload"
    /\ \E ok \in BOOLEAN :
         IF ok
         THEN /\ collection' = index_run.loaded
              /\ last_hash' = index_run.hash
              /\ response_cache' = clear(response_cache)
              /\ index_run' = [index_run EXCEPT !.pc = "clearing"]
              /\ last' = [NoUpdate EXCEPT !.handler = "index_knowledge",
                                          !.effect = "uploaded"]
         ELSE /\ index_run' = Idle
              /\ last' = [NoUpdate EXCEPT !.handler = "index_knowledge",
                                          !.effect = "failed"]
              /\ UNCHANGED <<collection, last_hash, response_cache>>
    /\ UNCHANGED <<ADMIN_ID, serviceVars, adminVars, botVars, kb_main, kb_new, access_count,
                   legacy_loaded, legacy_last_hash, legacy_collection, stale>>

\* enhanced_vector_db.py:54, 360  the second statement of ResponseCache.clear
\* and the return of index_knowledge
index_knowledge_finish ==
    /\ index_run.pc = "clearing"
    /\ access_count' = clear(access_count)
    /\ index_run' = Idle
    /\ last' = [NoUpdate EXCEPT !.handler = "index_knowledge", !.effect = "completed"]
    /\ UNCHANGED <<ADMIN_ID, serviceVars, adminVars, botVars, kb_main, kb_new, last_hash, collection,
                   response_cache, legacy_loaded, legacy_last_hash, legacy_collection, stale>>

\* vector_db.py:35  get_file_hash; it is called only while the file exists
get_file_hash == <<kb_main>>

\* vector_db.py:38  the import of vector_db (bot.py:47), which raises while
\* knowledge_base.json is absent
import_vector_db ==
    /\ ~legacy_loaded
    /\ kb_main /= Missing
    /\ legacy_loaded' = TRUE
    /\ legacy_last_hash' = get_file_hash
    /\ last' = [NoUpdate EXCEPT !.handler = "import_vector_db"]
    /\ UNCHANGED <<ADMIN_ID, serviceVars, adminVars, botVars, kb_main, kb_new, last_hash, collection,
                   response_cache, access_count, index_run, legacy_collection, stale>>

\* vector_db.py:44  index_knowledge of vector_db
legacy_index_knowledge ==
    /\ legacy_loaded
    /\ IF kb_main = Missing
       THEN /\ last' = [NoUpdate EXCEPT !.handler = "legacy_index_knowledge",
                                        !.effect = "failed"]
            /\ UNCHANGED <<legacy_last_hash, legacy_collection>>
       ELSE IF get_file_hash = legacy_last_hash
       THEN /\ last' = [NoUpdate EXCEPT !.handler = "legacy_index_knowledge",
                                        !.effect = "skipped"]
            /\ UNCHANGED <<legacy_last_hash, legacy_collection>>
       ELSE \E ok \in BOOLEAN :
              IF ok
              THEN /\ legacy_collection' = <<kb_main>>
                   /\ legacy_last_hash' = get_file_hash
                   /\ last' = [NoUpdate EXCEPT !.handler = "legacy_index_knowledge",
                                               !.effect = "completed"]
              ELSE /\ legacy_collection' = <<>>
                   /\ last' = [NoUpdate EXCEPT !.handler = "legacy_index_knowledge",
                                               !.effect = "failed"]
                   /\ UNCHANGED legacy_last_hash
    /\ UNCHANGED <<ADMIN_ID, serviceVars, adminVars, botVars, kb_main, kb_new, last_hash, collection,
                   response_cache, access_count, index_run, legacy_loaded, stale>>

\* ------------------------------------ frontend/services/cache_service.py
\* time passes
tick ==
    /\ clock < MaxClock
    /\ clock' = clock + 1
    /\ last' = [NoUpdate EXCEPT !.handler = "tick"]
    /\ UNCHANGED <<ADMIN_ID, adminVars, botVars, indexVars, memoryVars, cache_service,
                   conversation_service, added, products>>

\* the keys callers pass to the cache
SampleKeys ==
    {"Kak prinimat Argent? ", "dlya chego solberri", "chto takoe bars?", "privet"}

\* str.strip() of a sample key
KeyStrip(key) ==
    CASE key = "Kak prinimat Argent? " -> "Kak prinimat Argent?"
      [] OTHER -> key

\* str.lower() of a sample key
KeyLower(key) ==
    CASE key = "Kak prinimat Argent? " -> "kak prinimat argent? "
      [] key = "Kak prinimat Argent?" -> "kak prinimat argent?"
      [] OTHER -> key

\* cache_service.py:46  _normalize_key
normalize_key(key) ==
    CASE KeyLower(key) = "kak prinimat argent? " -> "kak prinimat argent?"
      [] OTHER -> KeyLower(key)

\* the lifetimes, in minutes, a cache is made with
SampleTtls == {1}

\* the service before its constructor has run
NoCacheService == [constructed |-> FALSE, max_size |-> 0, ttl_minutes |-> 0, cache |-> <<>>]

\* cache_service.py:29  CacheService.__init__; the cache is a dict, which
\* keeps its entries in the order their keys were first inserted
CacheService_init(size, ttl) ==
    /\ ~cache_service.constructed
    /\ cache_service' = [constructed |-> TRUE, max_size |-> size, ttl_minutes |-> ttl,
                         cache |-> <<>>]
    /\ last' = [NoUpdate EXCEPT !.handler = "CacheService.__init__"]
    /\ UNCHANGED <<ADMIN_ID, adminVars, botVars, indexVars, memoryVars, clock, conversation_service,
                   added, products>>

\* cache_service.py:20  CacheEntry.is_expired, and an entry that never expires
never_expired(entry, ttl) == FALSE

is_expired(entry, ttl) == clock > entry.created_at + ttl

\* the position of a key in the dict, 0 when it is absent
PositionOf(cache, key) ==
    IF \E i \in DOMAIN cache : cache[i].key = key
    THEN CHOOSE i \in DOMAIN cache : cache[i].key = key
    ELSE 0

\* del dict[key]
Without(cache, i) == SubSeq(cache, 1, i - 1) \o SubSeq(cache, i + 1, Len(cache))

\* cache_service.py:50  CacheService.get
CacheService_get(key) ==
    /\ cache_service.constructed
    /\ LET cache == cache_service.cache
           i == PositionOf(cache, normalize_key(key))
           h == [NoUpdate EXCEPT !.handler = "CacheService.get",
                                 !.data = normalize_key(key)]
       IN IF i = 0
          THEN /\ UNCHANGED cache_service
               /\ last' = [h EXCEPT !.effect = "miss", !.returned = "None"]
          ELSE IF is_expired(cache[i], cache_service.ttl_minutes)
          THEN /\ cache_service' = [cache_service EXCEPT !.cache = Without(cache, i)]
               /\ last' = [h EXCEPT !.effect = "expired", !.returned = "None"]
          ELSE /\ cache[i].hits < MaxAccess
               /\ cache_service' = [cache_service EXCEPT !.cache[i].hits = @ + 1]
               /\ last' = [h EXCEPT !.effect = "hit", !.returned = cache[i].value]
    /\ UNCHANGED <<ADMIN_ID, adminVars, botVars, indexVars, memoryVars, clock, conversation_service,
                   added, products>>

\* cache_service.py:106  _evict_least_used, and an eviction that removes
\* nothing: min() returns the first key of the least hits
evict_nothing(cache) == cache

evict_least_used(cache) ==
    IF cache = <<>> THEN cache
    ELSE Without(cache, CHOOSE i \in DOMAIN cache :
                           /\ \A j \in DOMAIN cache : cache[i].hits <= cache[j].hits
                           /\ \A j \in 1..(i - 1) : cache[j].hits > cache[i].hits)

\* dict[key] = entry: a key the dict holds keeps its position
Store(cache, entry) ==
    IF PositionOf(cache, entry.key) = 0 THEN Append(cache, entry)
    ELSE [cache EXCEPT ![PositionOf(cache, entry.key)] = entry]

\* cache_service.py:80  CacheService.set
CacheService_set(key, value) ==
    /\ cache_service.constructed
    /\ IF Len(KeyStrip(key)) < 10
       THEN /\ UNCHANGED cache_service
            /\ last' = [NoUpdate EXCEPT !.handler = "CacheService.set",
                                        !.data = normalize_key(key), !.effect = "ignored"]
       ELSE LET cache == cache_service.cache
                room == IF Len(cache) >= cache_service.max_size
                        THEN evict_least_used(cache) ELSE cache
            IN /\ cache_service' =
                      [cache_service EXCEPT !.cache =
                          Store(room, [key |-> normalize_key(key), value |-> value,
                                       created_at |-> clock, hits |-> 0])]
               /\ last' = [NoUpdate EXCEPT !.handler = "CacheService.set",
                                           !.data = normalize_key(key),
                                           !.effect = IF room = cache THEN "stored"
                                                      ELSE "evicted_and_stored"]
    /\ UNCHANGED <<ADMIN_ID, adminVars, botVars, indexVars, memoryVars, clock, conversation_service,
                   added, products>>

\* cache_service.py:120  CacheService.clear
CacheService_clear ==
    /\ cache_service.constructed
    /\ cache_service' = [cache_service EXCEPT !.cache = <<>>]
    /\ last' = [NoUpdate EXCEPT !.handler = "CacheService.clear"]
    /\ UNCHANGED <<ADMIN_ID, adminVars, botVars, indexVars, memoryVars, clock, conversation_service,
                   added, products>>

RECURSIVE Unexpired(_, _)
Unexpired(cache, ttl) ==
    IF cache = <<>> THEN <<>>
    ELSE IF is_expired(Head(cache), ttl) THEN Unexpired(Tail(cache), ttl)
    ELSE <<Head(cache)>> \o Unexpired(Tail(cache), ttl)

\* cache_service.py:125  CacheService.clear_expired
CacheService_clear_expired ==
    /\ cache_service.constructed
    /\ cache_service' = [cache_service EXCEPT
                            !.cache = Unexpired(@, cache_service.ttl_minutes)]
    /\ last' = [NoUpdate EXCEPT !.handler = "CacheService.clear_expired"]
    /\ UNCHANGED <<ADMIN_ID, adminVars, botVars, indexVars, memoryVars, clock, conversation_service,
                   added, products>>

\* ----------------------------- frontend/services/conversation_service.py
\* the service before its constructor has run
NoConversationService == [constructed |-> FALSE, max_history |-> 0, conversations |-> <<>>]

\* conversation_service.py:35  ConversationService.__init__
ConversationService_init(history) ==
    /\ ~conversation_service.constructed
    /\ conversation_service' = [constructed |-> TRUE, max_history |-> history,
                                conversations |-> <<>>]
    /\ last' = [NoUpdate EXCEPT !.handler = "ConversationService.__init__"]
    /\ UNCHANGED <<ADMIN_ID, adminVars, botVars, indexVars, memoryVars, clock, cache_service, added,
                   products>>

\* conversation_service.py:46  get_or_create_context: the messages of the
\* context, which is created empty
ContextMessages(conversations, user_id) ==
    IF HasKey(conversations, user_id) THEN conversations[user_id] ELSE <<>>

\* conversation_service.py:89-90  messages[-max_history:] when the list is
\* longer than max_history (a slice from -0 is the whole list), and a
\* history that is never cut
Unlimited(messages, max_history) == messages

Limited(messages, max_history) ==
    IF Len(messages) > max_history /\ max_history /= 0
    THEN SubSeq(messages, Len(messages) - max_history + 1, Len(messages))
    ELSE messages

\* conversation_service.py:62  add_message; a message is told from the
\* others by its content, the number of the call that added it
add_message(user_id) ==
    /\ conversation_service.constructed
    /\ Len(added) < MaxAdded
    /\ LET message == Len(added) + 1
           messages == Append(ContextMessages(conversation_service.conversations, user_id),
                              message)
       IN /\ conversation_service' =
                 [conversation_service EXCEPT !.conversations =
                     Put(@, user_id, Limited(messages, conversation_service.max_history))]
          /\ added' = Append(added, user_id)
          /\ last' = [NoUpdate EXCEPT !.handler = "add_message", !.from = user_id,
                                      !.run = message]
    /\ UNCHANGED <<ADMIN_ID, adminVars, botVars, indexVars, memoryVars, clock, cache_service,
                   products>>

\* conversation_service.py:94  get_history, which creates the context
get_history(user_id) ==
    /\ conversation_service.constructed
    /\ conversation_service' =
          [conversation_service EXCEPT !.conversations =
              Put(@, user_id, ContextMessages(@, user_id))]
    /\ last' = [NoUpdate EXCEPT !.handler = "get_history", !.from = user_id]
    /\ UNCHANGED <<ADMIN_ID, adminVars, botVars, indexVars, memoryVars, clock, cache_service, added,
                   products>>

\* conversation_service.py:180  clear_context
clear_context(user_id) ==
    /\ conversation_service.constructed
    /\ conversation_service' =
          [conversation_service EXCEPT !.conversations =
              IF HasKey(@, user_id) THEN Drop(@, user_id) ELSE @]
    /\ last' = [NoUpdate EXCEPT !.handler = "clear_context", !.from = user_id]
    /\ UNCHANGED <<ADMIN_ID, adminVars, botVars, indexVars, memoryVars, clock, cache_service, added,
                   products>>

\* ------------------------------------------- backend/api/routes/products.py
\* the names and ids requests carry; "None" is an id left out
SampleNames == {"Argent", "Bars Forte"}

SampleIds == {"None", "argent", "bars-forte", "p1"}

\* products.py:65  name.lower().replace(" ", "-")
Slug(name) ==
    CASE name = "Argent" -> "argent"
      [] name = "Bars Forte" -> "bars-forte"

Response(handler, name, id, status) ==
    [NoUpdate EXCEPT !.handler = handler, !.data = name, !.returned = id,
                     !.effect = status]

\* product_repo.py:17  ProductRepository.create: the row takes the id of the
\* request; the commit raises IntegrityError when the primary key is NULL or
\* taken, and the row is not stored
ProductRepository_create(name, id) ==
    IF id = "None" \/ HasKey(products, id) THEN products ELSE Put(products, id, name)

\* products.py:59  create_product
create_product(name, id) ==
    /\ IF HasKey(products, Slug(name))
       THEN /\ UNCHANGED products
            /\ last' = Response("create_product", name, id, "400")
       ELSE /\ products' = ProductRepository_create(name, id)
            /\ last' = Response("create_product", name, id,
                                IF id = "None" \/ HasKey(products, id) THEN "500" ELSE "200")
    /\ UNCHANGED <<ADMIN_ID, adminVars, botVars, indexVars, memoryVars, clock, cache_service,
                   conversation_service, added>>

\* products.py:73  update_product, product_repo.py:112; the request sets the name
update_product(id, name) ==
    /\ IF HasKey(products, id)
       THEN /\ products' = [products EXCEPT ![id] = name]
            /\ last' = Response("update_product", name, id, "200")
       ELSE /\ UNCHANGED products
            /\ last' = Response("update_product", name, id, "404")
    /\ UNCHANGED <<ADMIN_ID, adminVars, botVars, indexVars, memoryVars, clock, cache_service,
                   conversation_service, added>>

\* products.py:89  delete_product, product_repo.py:126
delete_product(id) ==
    /\ IF HasKey(products, id)
       THEN /\ products' = Drop(products, id)
            /\ last' = Response("delete_product", "", id, "200")
       ELSE /\ UNCHANGED products
            /\ last' = Response("delete_product", "", id, "404")
    /\ UNCHANGED <<ADMIN_ID, adminVars, botVars, indexVars, memoryVars, clock, cache_service,
                   conversation_service, added>>

\* ------------------------------------------------ conversation_memory.py
\* The handlers call add_message on the event loop thread, one call at a
\* time; cleanup_worker runs cleanup_old_conversations on a thread of its
\* own.  The interpreter may switch threads between any two bytecodes, so
\* each method is a sequence of steps, one for each access to the shared
\* dicts.  The dict keeps the users in the order their keys were inserted;
\* a message is the number of the add_message call that made it.

\* conversation_memory.py:61  the time of this part is counted in hours
max_memory_hours == 1

\* conversation_memory.py:62
max_messages_per_user == 100

NoCall == [pc |-> "idle", user_id |-> 0, message |-> 0]

NoCleanup == [pc |-> "idle", cutoff_time |-> 0, keys |-> <<>>, filtered |-> <<>>]

\* the position of a user in the dict, 0 when the key is absent
UserPosition(conversations, user_id) ==
    IF \E i \in DOMAIN conversations : conversations[i].user_id = user_id
    THEN CHOOSE i \in DOMAIN conversations : conversations[i].user_id = user_id
    ELSE 0

MemoryStep(effect) ==
    [NoUpdate EXCEPT !.handler = "ConversationMemory.add_message",
                     !.from = memory_add.user_id, !.run = memory_add.message,
                     !.effect = effect]

\* conversation_memory.py:120-132  add_message: the key is created when it
\* is absent and the message is built
memory_add_begin(user_id) ==
    /\ memory_add.pc = "idle"
    /\ Len(passed) < MaxAdded
    /\ memory_conversations' =
          IF UserPosition(memory_conversations, user_id) = 0
          THEN Append(memory_conversations, [user_id |-> user_id, messages |-> <<>>])
          ELSE memory_conversations
    /\ passed' = Append(passed, [user_id |-> user_id, timestamp |-> clock])
    /\ memory_add' = [pc |-> "append", user_id |-> user_id, message |-> Len(passed) + 1]
    /\ last' = [NoUpdate EXCEPT !.handler = "ConversationMemory.add_message",
                                !.from = user_id, !.run = Len(passed) + 1,
                                !.effect = "begun"]
    /\ UNCHANGED <<ADMIN_ID, adminVars, botVars, indexVars, clock, cache_service,
                   conversation_service, added, products, memory_profiles,
                   memory_cleanup>>

\* conversation_memory.py:133  self.conversations[user_id].append(message),
\* which raises KeyError when the key is gone
memory_add_append ==
    /\ memory_add.pc = "append"
    /\ LET i == UserPosition(memory_conversations, memory_add.user_id)
       IN IF i = 0
          THEN /\ memory_add' = NoCall
               /\ last' = MemoryStep("KeyError")
               /\ UNCHANGED memory_conversations
          ELSE /\ memory_conversations' =
                      [memory_conversations EXCEPT ![i].messages =
                                                      Append(@, memory_add.message)]
               /\ memory_add' = [memory_add EXCEPT !.pc = "limit"]
               /\ last' = MemoryStep("appended")
    /\ UNCHANGED <<ADMIN_ID, adminVars, botVars, indexVars, clock, cache_service,
                   conversation_service, added, products, memory_profiles,
                   memory_cleanup, passed>>

\* conversation_memory.py:136-137  the limit of messages per user
memory_add_limit ==
    /\ memory_add.pc = "limit"
    /\ LET i == UserPosition(memory_conversations, memory_add.user_id)
       IN IF i = 0
          THEN /\ memory_add' = NoCall
               /\ last' = MemoryStep("KeyError")
               /\ UNCHANGED memory_conversations
          ELSE /\ memory_conversations' =
                      [memory_conversations EXCEPT ![i].messages =
                          IF Len(@) > max_messages_per_user
                          THEN SubSeq(@, Len(@) - max_messages_per_user + 1, Len(@))
                          ELSE @]
               /\ memory_add' = [memory_add EXCEPT !.pc = "profile"]
               /\ last' = MemoryStep("limited")
    /\ UNCHANGED <<ADMIN_ID, adminVars, botVars, indexVars, clock, cache_service,
                   conversation_service, added, products, memory_profiles,
                   memory_cleanup, passed>>

\* conversation_memory.py:140, 146-178  _update_user_profile
memory_add_profile ==
    /\ memory_add.pc = "profile"
    /\ memory_profiles' = memory_profiles \cup {memory_add.user_id}
    /\ memory_add' = [memory_add EXCEPT !.pc = "save"]
    /\ last' = MemoryStep("profile")
    /\ UNCHANGED <<ADMIN_ID, adminVars, botVars, indexVars, clock, cache_service,
                   conversation_service, added, products, memory_conversations,
                   memory_cleanup, passed>>

\* conversation_memory.py:143-144  len(self.conversations[user_id]) and the
\* periodic save
memory_add_finish ==
    /\ memory_add.pc = "save"
    /\ memory_add' = NoCall
    /\ last' = MemoryStep(IF UserPosition(memory_conversations, memory_add.user_id) = 0
                          THEN "KeyError" ELSE "added")
    /\ UNCHANGED <<ADMIN_ID, adminVars, botVars, indexVars, clock, cache_service,
                   conversation_service, added, products, memory_conversations,
                   memory_profiles, memory_cleanup, passed>>

CleanupStep(effect) ==
    [NoUpdate EXCEPT !.handler = "cleanup_old_conversations", !.effect = effect]

\* conversation_memory.py:310-312  the cutoff and list(self.conversations.keys())
cleanup_begin ==
    /\ memory_cleanup.pc = "idle"
    /\ memory_cleanup' =
          [pc |-> IF memory_conversations = <<>> THEN "idle" ELSE "filter",
           cutoff_time |-> clock - max_memory_hours,
           keys |-> [i \in DOMAIN memory_conversations |-> memory_conversations[i].user_id],
           filtered |-> <<>>]
    /\ last' = CleanupStep("begun")
    /\ UNCHANGED <<ADMIN_ID, adminVars, botVars, indexVars, clock, cache_service,
                   conversation_service, added, products, memory_conversations,
                   memory_profiles, memory_add, passed>>

\* the messages younger than the cutoff
RECURSIVE Kept(_, _)
Kept(messages, cutoff_time) ==
    IF messages = <<>> THEN <<>>
    ELSE IF passed[Head(messages)].timestamp > cutoff_time
    THEN <<Head(messages)>> \o Kept(Tail(messages), cutoff_time)
    ELSE Kept(Tail(messages), cutoff_time)

\* conversation_memory.py:314-317  the list comprehension over the messages
\* of the next user
cleanup_filter ==
    /\ memory_cleanup.pc = "filter"
    /\ LET i == UserPosition(memory_conversations, Head(memory_cleanup.keys))
       IN memory_cleanup' =
             [memory_cleanup EXCEPT !.pc = "store",
                                    !.filtered = Kept(memory_conversations[i].messages,
                                                      memory_cleanup.cutoff_time)]
    /\ last' = CleanupStep("filtered")
    /\ UNCHANGED <<ADMIN_ID, adminVars, botVars, indexVars, clock, cache_service,
                   conversation_service, added, products, memory_conversations,
                   memory_profiles, memory_add, passed>>

\* conversation_memory.py:314  self.conversations[user_id] = the filtered list
cleanup_store ==
    /\ memory_cleanup.pc = "store"
    /\ LET i == UserPosition(memory_conversations, Head(memory_cleanup.keys))
       IN memory_conversations' =
             [memory_conversations EXCEPT ![i].messages = memory_cleanup.filtered]
    /\ memory_cleanup' = [memory_cleanup EXCEPT !.pc = "check", !.filtered = <<>>]
    /\ last' = CleanupStep("stored")
    /\ UNCHANGED <<ADMIN_ID, adminVars, botVars, indexVars, clock, cache_service,
                   conversation_service, added, products, memory_profiles, memory_add,
                   passed>>

\* the loop goes on to the next key, or to _save_memory and the end
NextKey(cleanup) ==
    [cleanup EXCEPT !.keys = Tail(@),
                    !.pc = IF Tail(cleanup.keys) = <<>> THEN "idle" ELSE "filter"]

\* conversation_memory.py:320  `if not self.conversations[user_id]`
cleanup_check ==
    /\ memory_cleanup.pc = "check"
    /\ LET i == UserPosition(memory_conversations, Head(memory_cleanup.keys))
       IN IF memory_conversations[i].messages = <<>>
          THEN /\ memory_cleanup' = [memory_cleanup EXCEPT !.pc = "delete"]
               /\ last' = CleanupStep("empty")
          ELSE /\ memory_cleanup' = NextKey(memory_cleanup)
               /\ last' = CleanupStep("kept")
    /\ UNCHANGED <<ADMIN_ID, adminVars, botVars, indexVars, clock, cache_service,
                   conversation_service, added, products, memory_conversations,
                   memory_profiles, memory_add, passed>>

\* conversation_memory.py:321-323  the conversation and the profile are deleted
cleanup_delete ==
    /\ memory_cleanup.pc = "delete"
    /\ LET i == UserPosition(memory_conversations, Head(memory_cleanup.keys))
       IN memory_conversations' =
             SubSeq(memory_conversations, 1, i - 1)
                \o SubSeq(memory_conversations, i + 1, Len(memory_conversations))
    /\ memory_profiles' = memory_profiles \ {Head(memory_cleanup.keys)}
    /\ memory_cleanup' = NextKey(memory_cleanup)
    /\ last' = CleanupStep("deleted")
    /\ UNCHANGED <<ADMIN_ID, adminVars, botVars, indexVars, clock, cache_service,
                   conversation_service, added, products, memory_add, passed>>

\* ------------------------------------------------------------------- Init
Init ==
    /\ ADMIN_ID \in {0, 1}
    /\ user_started = {}
    /\ fsm_state = [u \in Users |-> "None"]
    /\ fsm_data = [u \in Users |-> NoData]
    /\ prompts = {}
    /\ submitted = {}
    /\ runs = <<>>
    /\ reply_copies = {}
    /\ users_waiting_for_natalya = {}
    /\ admin_replying_to = <<>>
    /\ next_message_id = 1
    /\ user_product_context = <<>>
    /\ user_full_answers = <<>>
    /\ user_product_carousels = <<>>
    /\ user_recommendations = <<>>
    /\ kb_main = Missing
    /\ kb_new = Missing
    /\ last_hash = <<>>
    /\ collection = <<>>
    /\ response_cache = <<>>
    /\ access_count = <<>>
    /\ index_run = Idle
    /\ legacy_loaded = FALSE
    /\ legacy_last_hash = <<>>
    /\ legacy_collection = <<>>
    /\ stale = {}
    /\ clock = 0
    /\ cache_service = NoCacheService
    /\ conversation_service = NoConversationService
    /\ added = <<>>
    /\ products = <<>>
    /\ memory_conversations = <<>>
    /\ memory_profiles = {}
    /\ memory_add = NoCall
    /\ memory_cleanup = NoCleanup
    /\ passed = <<>>
    /\ last = NoUpdate

\* the broadcast flow: /start, "Create broadcast", the content, the
\* confirmation and the loop
NextBroadcast ==
    \/ \E u \in Users : cmd_start(u)
    \/ \E oc \in UpdateOrigins : process_admin_panel(oc[1], oc[2], "admin_broadcast")
    \/ \E u \in Users : \E m \in SampleMessages : process_broadcast_content(u, m)
    \/ \E u \in Users : \E p \in SampleMessages :
          \E d \in {"confirm_broadcast", "cancel_broadcast"} : confirm_broadcast(u, p, d)
    \/ \E r \in 1..MaxRuns : broadcast_step(r)
    \/ \E r \in 1..MaxRuns : broadcast_report(r)

SpecBroadcast == Init /\ [][NextBroadcast]_vars

\* the admin panel: every handler that shows the panel or enters a mode
NextPanel ==
    \/ \E u \in Users : cmd_start(u)
    \/ \E oc \in UpdateOrigins : bot_cmd_admin(oc[1], oc[2])
    \/ \E oc \in UpdateOrigins : admin_stats(oc[1], oc[2])
    \/ \E oc \in UpdateOrigins : admin_back(oc[1], oc[2])
    \/ \E oc \in UpdateOrigins : admin_cmd_admin(oc[1], oc[2])
    \/ \E oc \in UpdateOrigins : \E a \in AdminActions : process_admin_panel(oc[1], oc[2], a)
    \/ \E u \in Users : \E m \in SampleMessages : process_broadcast_content(u, m)
    \/ \E u \in Users : \E p \in SampleMessages : confirm_broadcast(u, p, "cancel_broadcast")
    \/ \E u \in Users : \E t \in Users : enter_reply_mode(u, t)
    \/ \E u \in Users : process_reply_message(u)

SpecPanel == Init /\ [][NextPanel]_vars

\* the consultant relay: questions answered without product lists, so that
\* only the relay state varies
RelayEnv ==
    [ai |-> AIOutcomes({"llm", "failed"}, {0 - 1, 1}, {"no"}, BOOLEAN), found |-> {0, 1}, ctx |-> {1}]

\* the message a text replies to (0: none); the bot looks at it only when
\* the admin wrote the text
RepliedBy(u) == IF u = ADMIN_ID THEN 0..MaxMessageId ELSE {0}

NextRelay ==
    \/ \E u \in Clients : write_to_natalya(u)
    \/ \E u \in Clients : cancel_natalya(u)
    \/ \E u \in Clients : back_to_main(u)
    \/ \E u \in Clients : \E text \in SampleTexts : \E reply_to \in RepliedBy(u) :
          handle_message(u, text, reply_to, RelayEnv)

SpecRelay == Init /\ [][NextRelay]_vars

\* the stored content: long answers, product carousels, recommendations
ContentEnv ==
    [ai |-> AIOutcomes({"registration", "llm"}, {0 - 1}, {"no", "tail", "blank"}, {FALSE}),
     found |-> {0, MaxProducts}, ctx |-> {1}]

\* the users of the stored content: its owner and another user who presses
\* the buttons under the owner's answers
Pressers == {1, 2}

\* callback data: the user id and index a button carries, or data that
\* does not parse
CallbackData ==
    (Pressers \X (0..MaxProducts) \X {FALSE}) \cup (Pressers \X {0} \X {TRUE})

\* the questions that leave content behind: a link request and a question
ContentTexts ==
    {<<"gde", "kupit", "solberri">>, <<"kakie", "produkty", "dlya", "pecheni">>}

NextContent ==
    \/ \E u \in Pressers : \E text \in ContentTexts : handle_message(u, text, 0, ContentEnv)
    \/ \E p \in Pressers : \E uid \in Pressers : \E m \in BOOLEAN : handle_read_more(p, uid, m)
    \/ \E p \in Pressers : \E d \in CallbackData : handle_carousel_prev(p, d[1], d[2], d[3])
    \/ \E p \in Pressers : \E d \in CallbackData : handle_carousel_next(p, d[1], d[2], d[3])
    \/ \E p \in Pressers : \E d \in CallbackData :
          handle_next_recommendation(p, d[1], d[2], d[3])
    \/ \E p \in Pressers : \E d \in CallbackData :
          handle_prev_recommendation(p, d[1], d[2], d[3])

SpecContent == Init /\ [][NextContent]_vars

\* knowledge-base indexing: the files change, the two indexers run, and
\* answers are cached and looked up meanwhile
NextIndex ==
    \/ \E file \in KnowledgeFiles : \E v \in FileStates : write_file(file, v)
    \/ index_knowledge_begin
    \/ index_knowledge_upload
    \/ index_knowledge_finish
    \/ \E query \in SampleQueries : cache_response(query)
    \/ \E query \in SampleQueries : get_cached_response(query)

SpecIndex == Init /\ [][NextIndex]_vars

\* the indexer of vector_db, which watches knowledge_base.json alone
NextLegacyIndex ==
    \/ \E file \in KnowledgeFiles : \E v \in FileStates : write_file(file, v)
    \/ import_vector_db
    \/ legacy_index_knowledge

SpecLegacyIndex == Init /\ [][NextLegacyIndex]_vars

\* the response cache of the frontend: callers look answers up, store them
\* and clear the cache while time passes
NextCache ==
    \/ \E size \in 1..MaxCacheSize : \E ttl \in SampleTtls : CacheService_init(size, ttl)
    \/ tick
    \/ \E key \in SampleKeys : CacheService_get(key)
    \/ \E key \in SampleKeys : CacheService_set(key, "answer")
    \/ CacheService_clear
    \/ CacheService_clear_expired

SpecCache == Init /\ [][NextCache]_vars

\* the conversation histories of the frontend
NextConversation ==
    \/ \E history \in 1..MaxHistory : ConversationService_init(history)
    \/ \E u \in Clients : add_message(u)
    \/ \E u \in Clients : get_history(u)
    \/ \E u \in Clients : clear_context(u)

SpecConversation == Init /\ [][NextConversation]_vars

\* the product endpoints of the backend
NextProducts ==
    \/ \E name \in SampleNames : \E id \in SampleIds : create_product(name, id)
    \/ \E id \in SampleIds \ {"None"} : \E name \in SampleNames : update_product(id, name)
    \/ \E id \in SampleIds \ {"None"} : delete_product(id)

SpecProducts == Init /\ [][NextProducts]_vars

\* the conversation memory: the handlers add messages while the cleanup
\* thread runs and time passes
NextMemory ==
    \/ tick
    \/ \E u \in Clients : memory_add_begin(u)
    \/ memory_add_append
    \/ memory_add_limit
    \/ memory_add_profile
    \/ memory_add_finish
    \/ cleanup_begin
    \/ cleanup_filter
    \/ cleanup_store
    \/ cleanup_check
    \/ cleanup_delete

SpecMemory == Init /\ [][NextMemory]_vars

C2_NoCopyWithoutConfirm ==
    [][ /\ (\E m \in last'.sends : m.kind = "copy")
              => /\ last'.run \in 1..Len(runs)
                 /\ runs[last'.run].data = "confirm_broadcast"
                 /\ runs[last'.run].owner = ADMIN_ID
        /\ (last'.handler = "confirm_broadcast" /\ last'.data = "cancel_broadcast")
              => /\ runs' = runs
                 /\ last'.sends = {}
                 /\ fsm_state'[last'.from] = "None"
      ]_vars

\* a cancellation handled after an earlier confirmed broadcast was started
\* and delivered its copies
C2_Witness ==
    /\ last.handler = "confirm_broadcast"
    /\ last.data = "cancel_broadcast"
    /\ fsm_state[last.from] = "None"
    /\ Len(runs) > 0
    /\ runs[1].pc = "ended"
    /\ user_started /= {}

PanelEffects == {"panel", "stats", "broadcast_started", "users_list", "info", "reply_mode"}

\* C5: the panel is shown, statistics are shown, a broadcast is started or
\* reply mode is entered only for an update sent by ADMIN_ID, and only
\* ADMIN_ID is ever in an FSM state.
C5_AdminOnly ==
    /\ last.effect \in PanelEffects => last.from = ADMIN_ID
    /\ \A u \in Users : fsm_state[u] /= "None" => u = ADMIN_ID

\* a user who is not the admin asked for the panel from a group chat
C5_Witness ==
    /\ ADMIN_ID /= 0
    /\ last.from /= ADMIN_ID
    /\ last.chat \in GroupChats
    /\ last.handler \in {"bot_cmd_admin", "admin_stats", "admin_back", "admin_cmd_admin"}
    /\ last.effect \notin PanelEffects

\* C7 (claim as stated): the message a confirmed broadcast copies is the
\* message whose confirmation prompt was pressed.
C7_SendsPromptedMessage ==
    \A m \in last.sends : m.kind = "copy" => m.text = last.prompt

\* ---------------------------------------------- claims: consultant relay
\* C3 (claim as stated): whenever the admin sends a non-empty text as a
\* Reply to a message recorded in admin_replying_to for user U, the text is
\* sent to U and to nobody else.
C3_ReplyReachesItsUser ==
    [][ ( /\ last'.handler = "handle_message"
          /\ last'.from = ADMIN_ID
          /\ last'.text /= <<>>
          /\ last'.reply_to /= 0
          /\ HasKey(admin_replying_to, last'.reply_to) )
            => last'.sends =
                  {Send(admin_replying_to[last'.reply_to], "reply", last'.text)}
      ]_vars

\* C4: pressing write_to_natalya puts the user in waiting mode, only the
\* user's own updates take the user out of it, and with an admin configured
\* a text sent while waiting is handled by the consultant branch alone: it
\* is sent to ADMIN_ID, the user leaves waiting mode, and no product
\* context, answer or carousel changes.
C4_WaitingTextGoesToAdmin ==
    [][ /\ last'.handler = "write_to_natalya"
            => last'.from \in users_waiting_for_natalya'
        /\ \A u \in users_waiting_for_natalya \ users_waiting_for_natalya' :
              last'.from = u
        /\ ( /\ last'.handler = "handle_message"
             /\ last'.from \in users_waiting_for_natalya
             /\ ADMIN_ID /= 0 )
            => /\ last'.branch = "natalya"
               /\ last'.sends = {Send(ADMIN_ID, "consult", last'.text)}
               /\ last'.from \notin users_waiting_for_natalya'
               /\ UNCHANGED <<user_product_context, user_full_answers,
                              user_product_carousels>>
      ]_vars

\* a user with a product context, waiting for the consultant, sent a text
\* that the link-confirmation branch would take, and it went to the admin
C4_Witness ==
    /\ last.handler = "handle_message"
    /\ last.was_waiting
    /\ ADMIN_ID /= 0
    /\ TextTests[last.text].link_confirmation
    /\ HasKey(user_product_context, last.from)
    /\ last.effect = "forwarded"

\* C8: after cancel_natalya or back_to_main the user is not in waiting mode,
\* and a text of a user who is not in waiting mode is not handled by the
\* consultant branch: no consultant message (bot.py:646) is sent and no reply
\* link is recorded in admin_replying_to.
C8_CancelledTextNotForwarded ==
    [][ /\ last'.handler \in {"cancel_natalya", "back_to_main"}
            => last'.from \notin users_waiting_for_natalya'
        /\ ( /\ last'.handler = "handle_message"
             /\ last'.from \notin users_waiting_for_natalya )
            => /\ last'.branch /= "natalya"
               /\ \A m \in last'.sends : m.kind /= "consult"
               /\ DOMAIN admin_replying_to' \subseteq DOMAIN admin_replying_to
      ]_vars

\* a user who was waiting pressed cancel_natalya or back_to_main
C8_Witness ==
    /\ last.handler \in {"cancel_natalya", "back_to_main"}
    /\ last.was_waiting
    /\ last.from \notin users_waiting_for_natalya
    /\ ADMIN_ID /= 0

\* ------------------------------------------------ claims: stored content
CallbackHandlers ==
    {"handle_read_more", "handle_carousel_prev", "handle_carousel_next",
     "handle_next_recommendation", "handle_prev_recommendation"}

\* C6: a callback whose data carries the id of another user than the
\* presser sends no stored content and changes no stored state.
C6_ForeignCallbackInert ==
    [][ (last'.handler \in CallbackHandlers /\ last'.embedded /= last'.from)
            => /\ ~last'.content_sent
               /\ UNCHANGED botVars
      ]_vars

\* somebody pressed the button of another user's carousel or long answer
C6_Witness ==
    /\ last.handler \in CallbackHandlers
    /\ last.embedded /= last.from
    /\ \/ /\ last.handler \in {"handle_carousel_prev", "handle_carousel_next"}
          /\ HasKey(user_product_carousels, last.embedded)
       \/ /\ last.handler = "handle_read_more"
          /\ HasKey(user_full_answers, last.embedded)
    /\ last.effect = "not_yours"

\* ------------------------------------------------------ claims: indexing
\* C9 (claim as stated): a call of index_knowledge made while the files are
\* the ones the last completed indexing loaded returns without recreating
\* the collection, uploading points or clearing the response cache.
C9_UnchangedFilesNoIndexing ==
    [][ ( /\ last'.handler = "index_knowledge"
          /\ index_run.pc = "idle"
          /\ collection = <<kb_main, kb_new>> )
            => /\ index_run'.pc = "idle"
               /\ UNCHANGED <<collection, response_cache, access_count>>
      ]_vars

\* C10: when index_knowledge returns from a re-index, get_cached_response
\* finds no response that was in the cache when the re-index began.
C10_ReindexClearsCache ==
    [][ (last'.handler = "index_knowledge" /\ last'.effect = "completed")
            => \A query \in SampleQueries :
                  \/ CachedResponse(response_cache', query) = "None"
                  \/ cache_key(query) \notin stale'
      ]_vars

\* a re-index completed that began with responses in the cache
C10_Witness ==
    /\ last.handler = "index_knowledge"
    /\ last.effect = "completed"
    /\ stale /= {}
    /\ collection /= <<>>

\* ------------------------------------------------ claims: frontend cache
\* C11: after any sequence of get, set, clear and clear_expired calls the
\* cache of CacheService holds at most max_size entries.
C11_AtMostMaxSize ==
    cache_service.constructed => Len(cache_service.cache) <= cache_service.max_size

\* a set that found the cache full of used entries and evicted one
C11_Witness ==
    /\ last.handler = "CacheService.set"
    /\ last.effect = "evicted_and_stored"
    /\ Len(cache_service.cache) = cache_service.max_size
    /\ cache_service.max_size > 1
    /\ \E i \in DOMAIN cache_service.cache : cache_service.cache[i].hits > 0

\* C12: a get that finds an entry created more than ttl_minutes ago returns
\* None and removes the entry, and whatever a get returns is the value of an
\* entry created at most ttl_minutes ago.
C12_GetNeverReturnsExpired ==
    [][ last'.handler = "CacheService.get" =>
          LET cache == cache_service.cache
              i == PositionOf(cache, last'.data)
          IN /\ (i /= 0 /\ clock > cache[i].created_at + cache_service.ttl_minutes)
                   => /\ last'.returned = "None"
                      /\ PositionOf(cache_service'.cache, last'.data) = 0
             /\ last'.returned /= "None"
                   => /\ i /= 0
                      /\ last'.returned = cache[i].value
                      /\ clock <= cache[i].created_at + cache_service.ttl_minutes
      ]_vars

\* a get that found an entry older than ttl_minutes and removed it
C12_Witness ==
    /\ last.handler = "CacheService.get"
    /\ last.effect = "expired"
    /\ last.returned = "None"
    /\ PositionOf(cache_service.cache, last.data) = 0
    /\ cache_service.cache /= <<>>

\* ---------------------------------------- claims: frontend conversations
\* the messages added for a user, in the order they were added
RECURSIVE AddedFor(_, _)
AddedFor(calls, user_id) ==
    IF calls = <<>> THEN <<>>
    ELSE IF calls[Len(calls)] = user_id
    THEN Append(AddedFor(SubSeq(calls, 1, Len(calls) - 1), user_id), Len(calls))
    ELSE AddedFor(SubSeq(calls, 1, Len(calls) - 1), user_id)

IsSuffix(s, t) == Len(s) <= Len(t) /\ s = SubSeq(t, Len(t) - Len(s) + 1, Len(t))

\* C13: the history of every user never holds more than max_history
\* messages and is made of the messages added last for that user, in the
\* order they were added; after an add_message it ends with the message
\* added and has lost a message only when it was full.
C13_HistoryIsRecentSuffix ==
    [][ conversation_service'.constructed =>
          /\ \A u \in DOMAIN conversation_service'.conversations :
                /\ Len(conversation_service'.conversations[u])
                      <= conversation_service'.max_history
                /\ IsSuffix(conversation_service'.conversations[u],
                            AddedFor(added', u))
          /\ last'.handler = "add_message" =>
                LET before == ContextMessages(conversation_service.conversations, last'.from)
                    after == conversation_service'.conversations[last'.from]
                IN /\ after[Len(after)] = last'.run
                   /\ Len(after) = IF Len(before) < conversation_service.max_history
                                   THEN Len(before) + 1
                                   ELSE conversation_service.max_history
      ]_vars

\* an add_message that found the history full and dropped its oldest message
C13_Witness ==
    /\ last.handler = "add_message"
    /\ conversation_service.max_history > 1
    /\ Len(conversation_service.conversations[last.from]) = conversation_service.max_history
    /\ Len(AddedFor(added, last.from)) > conversation_service.max_history

\* ------------------------------------------------------- claims: backend
\* C14 (claim as stated): a create_product for a name that a stored product
\* already has is answered with status 400 and leaves the table as it was.
C14_DuplicateNameRejected ==
    [][ (/\ last'.handler = "create_product"
         /\ \E id \in DOMAIN products : products[id] = last'.data)
           => /\ last'.effect = "400"
              /\ products' = products
      ]_vars

MessagesOf(user_id) ==
    IF UserPosition(memory_conversations, user_id) = 0 THEN {}
    ELSE LET messages ==
                 memory_conversations[UserPosition(memory_conversations, user_id)].messages
         IN {messages[i] : i \in DOMAIN messages}

\* C16 (claim as stated): no add_message ends in an exception, and whenever
\* neither an add_message nor a cleanup is in progress, every message passed
\* to add_message within the last hour is in its user's conversation.
C16_NoMessageLost ==
    /\ ~(last.handler = "ConversationMemory.add_message" /\ last.effect = "KeyError")
    /\ (memory_add.pc = "idle" /\ memory_cleanup.pc = "idle")
          => \A n \in DOMAIN passed :
                passed[n].timestamp > clock - max_memory_hours
                   => n \in MessagesOf(passed[n].user_id)

=============================================================================
